---- MODULE Spec2Model ----
(***************************************************************************)
(* Model of FinalSignalDist.cpp: the search of the lowest-cost combination *)
(* of one amplifier, one switch, one attenuator and one power divider that *)
(* meets the ON-state, OFF-state and attenuator-range specifications.      *)
(*                                                                         *)
(* Number representation.  The attributes in dB / dBm are doubles; they    *)
(* are modelled in fixed point, in units of 0.0001 (15.0 dB is 150000,     *)
(* -55.0001 dB is -550001).  They stay far from the ends of the double     *)
(* range, so their sums are exact.  Costs are doubles too; they are        *)
(* modelled in whole currency units over the finite range                  *)
(* -MaxDouble..MaxDouble, and a sum that leaves the range becomes an       *)
(* infinity (DAdd), as IEEE-754 addition does.                             *)
(***************************************************************************)
EXTENDS Integers, Sequences, FiniteSets, TLC

VARIABLES amplifiers, switches, attenuators, dividers,
          ai, si, ti, di, pc,
          min_cost, best_combination, total_cost, output,
          amplifiers2, switches2, attenuators2,
          min_cost2, best_combination2, output2

catalogs == <<amplifiers, switches, attenuators, dividers>>
shadow == <<amplifiers2, switches2, attenuators2>>
run2 == <<min_cost2, best_combination2, output2>>
vars == <<amplifiers, switches, attenuators, dividers, ai, si, ti, di, pc,
          min_cost, best_combination, total_cost, output,
          amplifiers2, switches2, attenuators2,
          min_cost2, best_combination2, output2>>

---------------------------------------------------------------------------
(* Bounds of the model *)

\* Largest finite double of the model (stands for DBL_MAX).
MaxDouble == 1000
\* Most components, over the four catalogs, of the selection inputs.
MaxComponents == 6
\* Longest catalog of the selection inputs.
MaxLen == 2
\* Most components, over the four catalogs, of the inputs of the two runs.
MaxPairComponents == 5
\* Longest catalog of the specification that varies one kind of component.
MaxVaried == 2

---------------------------------------------------------------------------
(* Doubles *)

PosInf == MaxDouble + 1
NegInf == 0 - PosInf

\* numeric_limits<double>::max()
numeric_limits_max == MaxDouble

\* operator+ on doubles: a sum beyond the finite range is an infinity.
DAdd(a, b) ==
    LET s == a + b
    IN  IF s > MaxDouble THEN PosInf
        ELSE IF s < 0 - MaxDouble THEN NegInf
        ELSE s

---------------------------------------------------------------------------
(* Component records and their constructors *)

Amplifier(n, g_min_1, g_max_1, g_min_20, g_max_20, p1dB_1, p1dB_20, c) ==
    [name |-> n, gain_min_1GHz |-> g_min_1, gain_max_1GHz |-> g_max_1,
     gain_min_20GHz |-> g_min_20, gain_max_20GHz |-> g_max_20,
     P1dB_1GHz |-> p1dB_1, P1dB_20GHz |-> p1dB_20, cost |-> c]

Switch(n, g_1, g_20, leak_1, leak_20, p1dB, c) ==
    [name |-> n, gain_1GHz_typ |-> g_1, gain_20GHz_typ |-> g_20,
     leakage_1GHz |-> leak_1, leakage_20GHz |-> leak_20,
     P1dB_input |-> p1dB, cost |-> c]

Attenuator(n, g, max_att, p1dB) ==
    [name |-> n, gain |-> g, max_attenuation |-> max_att,
     P1dB_input |-> p1dB, cost |-> 0]

PowerDivider(n, g_1, g_20) ==
    [name |-> n, gain_1GHz |-> g_1, gain_20GHz |-> g_20, cost |-> 0]

getCost(c) == c.cost

---------------------------------------------------------------------------
(* ConfigurationFinder::printBestConfiguration: the per-tuple computations *)

\* Assume input power Pin = 0 dBm
input_power_dBm == 0

\* Mutant: the switch's cost is left out of the sum.
total_cost_without_switch(amp, sw, att, div) ==
    DAdd(DAdd(getCost(amp), getCost(att)), getCost(div))

total_cost_of(amp, sw, att, div) ==
    DAdd(DAdd(DAdd(getCost(amp), getCost(sw)), getCost(att)), getCost(div))

\* Mutant: the maximum gain at 1 GHz is taken from gain_min_1GHz.
effective_gain_max_1GHz_from_min(amp, att, div) ==
    amp.gain_min_1GHz + att.gain + div.gain_1GHz

effective_gain_max_1GHz(amp, att, div) ==
    amp.gain_max_1GHz + att.gain + div.gain_1GHz
effective_gain_max_20GHz(amp, att, div) ==
    amp.gain_max_20GHz + att.gain + div.gain_20GHz
effective_gain_min_1GHz(amp, att, div) ==
    amp.gain_min_1GHz + att.gain + div.gain_1GHz
effective_gain_min_20GHz(amp, att, div) ==
    amp.gain_min_20GHz + att.gain + div.gain_20GHz

max_output_power_1GHz(amp, att, div) ==
    input_power_dBm + effective_gain_max_1GHz(amp, att, div)
max_output_power_20GHz(amp, att, div) ==
    input_power_dBm + effective_gain_max_20GHz(amp, att, div)
min_output_power_1GHz(amp, att, div) ==
    input_power_dBm + effective_gain_min_1GHz(amp, att, div)
min_output_power_20GHz(amp, att, div) ==
    input_power_dBm + effective_gain_min_20GHz(amp, att, div)

\* Thresholds of the specification checks, in units of 0.0001 dB.
SwGain1GHzMin == -10000
SwGain20GHzMin == -20000
AmpP1dB1GHzMin == 120000
AmpP1dB20GHzMin == 105000
Leakage1GHzBound == -550000
Leakage20GHzBound == -200000

\* Mutant: the minimum output powers are checked against P1dB as well.
OnStateOkMinPower(amp, sw, att, div) ==
    /\ max_output_power_1GHz(amp, att, div) <= amp.P1dB_1GHz
    /\ max_output_power_20GHz(amp, att, div) <= amp.P1dB_20GHz
    /\ min_output_power_1GHz(amp, att, div) <= amp.P1dB_1GHz
    /\ min_output_power_20GHz(amp, att, div) <= amp.P1dB_20GHz
    /\ sw.gain_1GHz_typ >= SwGain1GHzMin
    /\ sw.gain_20GHz_typ >= SwGain20GHzMin
    /\ amp.P1dB_1GHz >= AmpP1dB1GHzMin
    /\ amp.P1dB_20GHz >= AmpP1dB20GHzMin

\* Check ON state specifications
OnStateOk(amp, sw, att, div) ==
    /\ max_output_power_1GHz(amp, att, div) <= amp.P1dB_1GHz
    /\ max_output_power_20GHz(amp, att, div) <= amp.P1dB_20GHz
    /\ sw.gain_1GHz_typ >= SwGain1GHzMin
    /\ sw.gain_20GHz_typ >= SwGain20GHzMin
    /\ amp.P1dB_1GHz >= AmpP1dB1GHzMin
    /\ amp.P1dB_20GHz >= AmpP1dB20GHzMin

\* Mutant: the leakage comparisons are not strict.
OffStateOkNonStrict(sw) ==
    /\ sw.leakage_1GHz <= Leakage1GHzBound
    /\ sw.leakage_20GHz <= Leakage20GHzBound

\* Check OFF state specifications
OffStateOk(sw) ==
    /\ sw.leakage_1GHz < Leakage1GHzBound
    /\ sw.leakage_20GHz < Leakage20GHzBound

\* Mutant: the gain is compared without its sign being flipped.
AttenuatorOkUnnegated(att) == att.gain <= att.max_attenuation

\* Check if the attenuator gain does not exceed its max attenuation
AttenuatorOk(att) == (0 - att.gain) <= att.max_attenuation

\* The three nested ifs that guard the comparison with min_cost.
MeetsSpecifications(amp, sw, att, div) ==
    IF OnStateOk(amp, sw, att, div)
    THEN IF OffStateOk(sw)
         THEN AttenuatorOk(att)
         ELSE FALSE
    ELSE FALSE

\* Mutant: a tuple of equal cost replaces the configuration held.
IsBetterOrEqual(cost, best) == cost <= best

\* if (total_cost < min_cost)
IsBetter(cost, best) == cost < best

Combination(amp, sw, att, div) ==
    "Amplifier: " \o amp.name \o ", Switch: " \o sw.name \o
    ", Attenuator: " \o att.name \o ", Power Divider: " \o div.name

---------------------------------------------------------------------------
(* ConfigurationFinder::printBestConfiguration: the control flow *)

amp == amplifiers[ai]
sw == switches[si]
att == attenuators[ti]
div == dividers[di]

\* for (const auto& amp : amplifiers)
ForAmp ==
    /\ pc = "for_amp"
    /\ IF ai < Len(amplifiers)
       THEN /\ ai' = ai + 1
            /\ si' = 0
            /\ pc' = "for_sw"
       ELSE /\ pc' = "report"
            /\ UNCHANGED <<ai, si>>
    /\ UNCHANGED <<catalogs, ti, di, min_cost, best_combination, total_cost,
                   output, shadow, run2>>

\* for (const auto& sw : switches)
ForSw ==
    /\ pc = "for_sw"
    /\ IF si < Len(switches)
       THEN /\ si' = si + 1
            /\ ti' = 0
            /\ pc' = "for_att"
       ELSE /\ pc' = "for_amp"
            /\ UNCHANGED <<si, ti>>
    /\ UNCHANGED <<catalogs, ai, di, min_cost, best_combination, total_cost,
                   output, shadow, run2>>

\* for (const auto& att : attenuators)
ForAtt ==
    /\ pc = "for_att"
    /\ IF ti < Len(attenuators)
       THEN /\ ti' = ti + 1
            /\ di' = 0
            /\ pc' = "for_div"
       ELSE /\ pc' = "for_sw"
            /\ UNCHANGED <<ti, di>>
    /\ UNCHANGED <<catalogs, ai, si, min_cost, best_combination, total_cost,
                   output, shadow, run2>>

\* for (const auto& div : dividers)
ForDiv ==
    /\ pc = "for_div"
    /\ IF di < Len(dividers)
       THEN /\ di' = di + 1
            /\ pc' = "body"
       ELSE /\ pc' = "for_att"
            /\ UNCHANGED di
    /\ UNCHANGED <<catalogs, ai, si, ti, min_cost, best_combination,
                   total_cost, output, shadow, run2>>

\* Mutant: the cost sum is computed inside the specification checks.
EvaluateRunCostWhenFeasible ==
    /\ pc = "body"
    /\ total_cost' = IF MeetsSpecifications(amp, sw, att, div)
                     THEN total_cost_of(amp, sw, att, div) ELSE total_cost
    /\ pc' = IF MeetsSpecifications(amp, sw, att, div)
             THEN "compare" ELSE "for_div"
    /\ UNCHANGED <<catalogs, ai, si, ti, di, min_cost, best_combination,
                   output, shadow>>

\* The loop body up to the innermost if: the cost sum, the gains and output
\* powers, and the three nested specification checks.
EvaluateRun ==
    /\ pc = "body"
    /\ total_cost' = total_cost_of(amp, sw, att, div)
    /\ pc' = IF MeetsSpecifications(amp, sw, att, div)
             THEN "compare" ELSE "for_div"
    /\ UNCHANGED <<catalogs, ai, si, ti, di, min_cost, best_combination,
                   output, shadow>>

\* Mutant: every tuple that meets the specifications replaces the
\* configuration held.
CompareRunUnguarded ==
    /\ pc = "compare"
    /\ min_cost' = total_cost
    /\ best_combination' = Combination(amp, sw, att, div)
    /\ pc' = "for_div"
    /\ UNCHANGED <<catalogs, ai, si, ti, di, total_cost, output, shadow>>

\* if (total_cost < min_cost) { min_cost = ...; best_combination = ...; }
CompareRun ==
    /\ pc = "compare"
    /\ IF IsBetter(total_cost, min_cost)
       THEN /\ min_cost' = total_cost
            /\ best_combination' = Combination(amp, sw, att, div)
       ELSE UNCHANGED <<min_cost, best_combination>>
    /\ pc' = "for_div"
    /\ UNCHANGED <<catalogs, ai, si, ti, di, total_cost, output, shadow>>

\* Output the best configuration found
Found(combination, cost) ==
    [text |-> <<"*******Best Configuration:*******", combination,
                " with total cost: $">>,
     cost |-> <<cost>>]
NotFound ==
    [text |-> <<"No valid configuration found that meets the specifications.">>,
     cost |-> <<>>]
\* Mutant: the emptiness test is inverted.
PrintedInverted(combination, cost) ==
    IF combination = "" THEN Found(combination, cost) ELSE NotFound

Printed(combination, cost) ==
    IF combination # "" THEN Found(combination, cost) ELSE NotFound

ReportRun ==
    /\ pc = "report"
    /\ output' = Printed(best_combination, min_cost)
    /\ pc' = "done"
    /\ UNCHANGED <<catalogs, ai, si, ti, di, min_cost, best_combination,
                   total_cost, shadow>>

---------------------------------------------------------------------------
(* A second run of printBestConfiguration, on the catalogs amplifiers2,    *)
(* switches2, attenuators2 and dividers.  The two runs have catalogs of    *)
(* the same lengths, hence the same loop structure; the second executes    *)
(* its whole loop body in the step in which the first evaluates the same   *)
(* tuple, and prints when the first prints.                                *)

BodyRun2 ==
    LET a2 == amplifiers2[ai]
        s2 == switches2[si]
        t2 == attenuators2[ti]
        cost2 == total_cost_of(a2, s2, t2, div)
    IN  IF MeetsSpecifications(a2, s2, t2, div) /\ IsBetter(cost2, min_cost2)
        THEN /\ min_cost2' = cost2
             /\ best_combination2' = Combination(a2, s2, t2, div)
             /\ UNCHANGED output2
        ELSE UNCHANGED run2

Evaluate == EvaluateRun /\ BodyRun2
Compare == CompareRun /\ UNCHANGED run2
Report ==
    /\ ReportRun
    /\ output2' = Printed(best_combination2, min_cost2)
    /\ UNCHANGED <<min_cost2, best_combination2>>

Next == ForAmp \/ ForSw \/ ForAtt \/ ForDiv \/ Evaluate \/ Compare \/ Report

---------------------------------------------------------------------------
(* The catalogs *)

Letters == <<"A", "B", "C", "D", "E", "F", "G", "H", "I">>
Digits == <<"1", "2", "3", "4", "5", "6", "7", "8", "9">>
AmpName(i) == "Amp-" \o Letters[i]
SwitchName(i) == "Switch-" \o Digits[i]
AttenuatorName(i) == "Attenuator-" \o Digits[i]
DividerName(i) == "Divider-" \o Digits[i]

\* Catalogs built from sequences of attribute tuples; the i-th component of
\* a catalog is named as main names it.
Amplifiers(d) ==
    [i \in 1..Len(d) |-> Amplifier(AmpName(i), d[i][1], d[i][2], d[i][3],
                                   d[i][4], d[i][5], d[i][6], d[i][7])]
Switches(d) ==
    [i \in 1..Len(d) |-> Switch(SwitchName(i), d[i][1], d[i][2], d[i][3],
                                d[i][4], d[i][5], d[i][6])]
Attenuators(d) ==
    [i \in 1..Len(d) |-> Attenuator(AttenuatorName(i), d[i][1], d[i][2], d[i][3])]
Dividers(d) ==
    [i \in 1..Len(d) |-> PowerDivider(DividerName(i), d[i][1], d[i][2])]

\* The example data of main.
AmpA == <<190000, 150000, 180000, 140000, 120000, 105000, 100>>
AmpB == <<180000, 140000, 170000, 130000, 110000, 95000, 120>>
Switch1 == <<5000, 4000, -600000, -250000, 150000, 50>>
Switch2 == <<6000, 5000, -580000, -220000, 140000, 60>>
Attenuator1 == <<-30000, 100000, 200000>>
Attenuator2 == <<-60000, 150000, 200000>>
Divider1 == <<0, 0>>
Divider2 == <<0, 0>>

SeqsUpTo(S, n) == UNION {[1..k -> S] : k \in 0..n}

\* State at the first loop header, for given catalogs.
Start(amps, sws, atts, divs, amps2, sws2, atts2) ==
    /\ amplifiers = amps
    /\ switches = sws
    /\ attenuators = atts
    /\ dividers = divs
    /\ amplifiers2 = amps2
    /\ switches2 = sws2
    /\ attenuators2 = atts2
    /\ ai = 0 /\ si = 0 /\ ti = 0 /\ di = 0
    /\ pc = "for_amp"
    /\ min_cost = numeric_limits_max
    /\ best_combination = ""
    /\ total_cost = 0
    /\ output = [text |-> <<>>, cost |-> <<>>]
    /\ min_cost2 = numeric_limits_max
    /\ best_combination2 = ""
    /\ output2 = [text |-> <<>>, cost |-> <<>>]

InitMain ==
    LET amps == Amplifiers(<<AmpA, AmpB>>)
        sws == Switches(<<Switch1, Switch2>>)
        atts == Attenuators(<<Attenuator1, Attenuator2>>)
        divs == Dividers(<<Divider1, Divider2>>)
    IN  Start(amps, sws, atts, divs, amps, sws, atts)

\* Catalogs of at most MaxLen components each and MaxComponents in all, over a few
\* components that differ in cost and in whether they meet the specifications.
AmpData ==
    {AmpA,
     <<190000, 150000, 180000, 140000, 120000, 105000, 110>>,
     <<180000, 140000, 170000, 130000, 110000, 95000, 10>>}
SwitchData == {Switch1, Switch2, <<5000, 4000, -550000, -250000, 150000, 0>>}
AttenuatorData == {Attenuator1, Attenuator2}
DividerData == {Divider1, <<40000, 0>>}

InitSelect ==
    \E a \in SeqsUpTo(AmpData, MaxLen), s \in SeqsUpTo(SwitchData, MaxLen),
       t \in SeqsUpTo(AttenuatorData, MaxLen), d \in SeqsUpTo(DividerData, MaxLen) :
        /\ Len(a) + Len(s) + Len(t) + Len(d) <= MaxComponents
        /\ Start(Amplifiers(a), Switches(s), Attenuators(t), Dividers(d),
              Amplifiers(a), Switches(s), Attenuators(t))

\* Catalogs in which one kind of component is varied over attribute values
\* on and next to every threshold, and over extreme costs, the other three
\* catalogs holding one component each.
AmpVaried ==
    {AmpA,
     <<190000, 180000, 180000, 140000, 120000, 105000, 100>>,
     <<190000, 180001, 180000, 140000, 120000, 105000, 100>>,
     <<190000, 150000, 180000, 165000, 120000, 105000, 100>>,
     <<190000, 150000, 180000, 165001, 120000, 105000, 100>>,
     <<190000, 150000, 180000, 140000, 119999, 105000, 100>>,
     <<190000, 150000, 180000, 140000, 120000, 104999, 100>>,
     <<190000, 150000, 180000, 140000, 120000, 105000, -20>>,
     <<190000, 150000, 180000, 140000, 120000, 105000, MaxDouble>>,
     <<190000, 150000, 180000, 140000, 120000, 105000, 0 - MaxDouble>>}
SwitchVaried ==
    {Switch1,
     <<-10000, 4000, -600000, -250000, 150000, 50>>,
     <<-10001, 4000, -600000, -250000, 150000, 50>>,
     <<5000, -20000, -600000, -250000, 150000, 50>>,
     <<5000, -20001, -600000, -250000, 150000, 50>>,
     <<5000, 4000, -550000, -250000, 150000, 50>>,
     <<5000, 4000, -550001, -250000, 150000, 50>>,
     <<5000, 4000, -600000, -200000, 150000, 50>>,
     <<5000, 4000, -600000, -200001, 150000, 50>>,
     <<5000, 4000, -600000, -250000, 150000, 0>>,
     <<5000, 4000, -600000, -250000, 150000, MaxDouble>>}
AttenuatorVaried ==
    {Attenuator1, Attenuator2,
     <<-150000, 150000, 200000>>,
     <<-150001, 150000, 200000>>,
     <<10000, 150000, 200000>>}
DividerVaried ==
    {Divider1,
     <<30000, 0>>, <<30001, 0>>,
     <<0, 25000>>, <<0, 25001>>}

InitVaried ==
    \/ \E a \in SeqsUpTo(AmpVaried, MaxVaried), s \in SwitchData,
          t \in AttenuatorData, d \in DividerData :
           Start(Amplifiers(a), Switches(<<s>>), Attenuators(<<t>>), Dividers(<<d>>),
                 Amplifiers(a), Switches(<<s>>), Attenuators(<<t>>))
    \/ \E a \in AmpData, s \in SeqsUpTo(SwitchVaried, MaxVaried),
          t \in AttenuatorData, d \in DividerData :
           Start(Amplifiers(<<a>>), Switches(s), Attenuators(<<t>>), Dividers(<<d>>),
                 Amplifiers(<<a>>), Switches(s), Attenuators(<<t>>))
    \/ \E a \in AmpData, s \in SwitchData,
          t \in SeqsUpTo(AttenuatorVaried, MaxVaried), d \in DividerData :
           Start(Amplifiers(<<a>>), Switches(<<s>>), Attenuators(t), Dividers(<<d>>),
                 Amplifiers(<<a>>), Switches(<<s>>), Attenuators(t))
    \/ \E a \in AmpData, s \in SwitchData,
          t \in AttenuatorData, d \in SeqsUpTo(DividerVaried, MaxVaried) :
           Start(Amplifiers(<<a>>), Switches(<<s>>), Attenuators(<<t>>), Dividers(d),
                 Amplifiers(<<a>>), Switches(<<s>>), Attenuators(<<t>>))

Init == InitMain \/ InitSelect \/ InitVaried

Spec == Init /\ [][Next]_vars

\* Two runs on catalogs that are identical except for the amplifiers'
\* gain_min_1GHz and gain_min_20GHz and for the switches' and attenuators'
\* P1dB_input, which the second run has replaced.
GainMinData == {<<190000, 180000>>, <<100000, -50000>>}
P1dBInputData == {<<150000, 200000>>, <<-100000, 0>>}

WithGainMin(amps, g) ==
    [i \in 1..Len(amps) |->
        [amps[i] EXCEPT !.gain_min_1GHz = g[1], !.gain_min_20GHz = g[2]]]
WithP1dBInput(cat, p) ==
    [i \in 1..Len(cat) |-> [cat[i] EXCEPT !.P1dB_input = p]]

PairData ==
    {<<a, s, t, d>> \in SeqsUpTo(AmpData, MaxLen) \X SeqsUpTo(SwitchData, MaxLen) \X
                        SeqsUpTo(AttenuatorData, MaxLen) \X SeqsUpTo(DividerData, MaxLen) :
        Len(a) + Len(s) + Len(t) + Len(d) <= MaxPairComponents}
    \cup {<< <<AmpA, AmpB>>, <<Switch1, Switch2>>,
             <<Attenuator1, Attenuator2>>, <<Divider1, Divider2>> >>}

InitPair ==
    \E c \in PairData, g \in GainMinData, p \in P1dBInputData :
        Start(Amplifiers(c[1]), Switches(c[2]), Attenuators(c[3]), Dividers(c[4]),
              WithGainMin(Amplifiers(c[1]), g),
              WithP1dBInput(Switches(c[2]), p[1]),
              WithP1dBInput(Attenuators(c[3]), p[2]))

SpecPair == InitPair /\ [][Next]_vars

---------------------------------------------------------------------------
(* Vocabulary of the properties *)

\* The full Cartesian product, as tuples of catalog indices.
Tuples ==
    (1..Len(amplifiers)) \X (1..Len(switches)) \X
    (1..Len(attenuators)) \X (1..Len(dividers))

AmpOf(t) == amplifiers[t[1]]
SwOf(t) == switches[t[2]]
AttOf(t) == attenuators[t[3]]
DivOf(t) == dividers[t[4]]

\* The nine predicates, with input power 0.
P1(a, t, d) == a.gain_max_1GHz + t.gain + d.gain_1GHz <= a.P1dB_1GHz
P2(a, t, d) == a.gain_max_20GHz + t.gain + d.gain_20GHz <= a.P1dB_20GHz
P3(s) == s.gain_1GHz_typ >= -10000
P4(s) == s.gain_20GHz_typ >= -20000
P5(a) == a.P1dB_1GHz >= 120000
P6(a) == a.P1dB_20GHz >= 105000
P7(s) == s.leakage_1GHz < -550000
P8(s) == s.leakage_20GHz < -200000
P9(t) == 0 - t.gain <= t.max_attenuation

AllButP7(a, s, t, d) ==
    P1(a, t, d) /\ P2(a, t, d) /\ P3(s) /\ P4(s) /\ P5(a) /\ P6(a) /\ P8(s) /\ P9(t)
NinePredicates(a, s, t, d) == AllButP7(a, s, t, d) /\ P7(s)

\* How many of the nine predicates a tuple fails.
Failures(a, s, t, d) ==
    Cardinality({i \in 1..9 :
        ~ <<P1(a, t, d), P2(a, t, d), P3(s), P4(s), P5(a), P6(a), P7(s), P8(s), P9(t)>>[i]})

FeasibleTuple(t) == NinePredicates(AmpOf(t), SwOf(t), AttOf(t), DivOf(t))
CostOfTuple(t) ==
    DAdd(DAdd(DAdd(AmpOf(t).cost, SwOf(t).cost), AttOf(t).cost), DivOf(t).cost)
NameOfTuple(t) == Combination(AmpOf(t), SwOf(t), AttOf(t), DivOf(t))
FeasibleTuples == {t \in Tuples : FeasibleTuple(t)}

\* Enumeration order: amplifier index first, divider index last.
LexLess(t, u) ==
    \/ t[1] < u[1]
    \/ t[1] = u[1] /\ t[2] < u[2]
    \/ t[1] = u[1] /\ t[2] = u[2] /\ t[3] < u[3]
    \/ t[1] = u[1] /\ t[2] = u[2] /\ t[3] = u[3] /\ t[4] < u[4]

Current == <<ai, si, ti, di>>
\* The tuples whose loop body has run to its end.
Enumerated ==
    {t \in Tuples : \/ LexLess(t, Current)
                    \/ t = Current /\ pc \notin {"body", "compare"}}

NoneHeld == best_combination = "" /\ min_cost = numeric_limits_max
AnyCatalogEmpty ==
    \/ Len(amplifiers) = 0 \/ Len(switches) = 0
    \/ Len(attenuators) = 0 \/ Len(dividers) = 0
Reported == output.cost # <<>>
ReportedCost == output.cost[1]
ReportedName == output.text[2]

---------------------------------------------------------------------------
(* C1 *)

\* C1 (exhaustiveness): when the run on non-empty catalogs has ended and a
\* configuration is reported, the reported cost is the cost of a feasible
\* tuple and is less than or equal to the cost of every feasible tuple of
\* the full Cartesian product: it is the brute-force minimum.
C1_Exhaustive ==
    (pc = "done" /\ ~ AnyCatalogEmpty /\ Reported) =>
        /\ \E t \in FeasibleTuples : CostOfTuple(t) = ReportedCost
        /\ \A t \in FeasibleTuples : ReportedCost <= CostOfTuple(t)

\* A finished run that reports the minimum of feasible tuples of different
\* costs, and in which an infeasible tuple is cheaper than that minimum.
C1_Witness ==
    /\ pc = "done" /\ Reported
    /\ \E t \in FeasibleTuples : CostOfTuple(t) > ReportedCost
    /\ \E t \in Tuples \ FeasibleTuples : CostOfTuple(t) < ReportedCost

---------------------------------------------------------------------------
(* C2 *)

\* C2 (termination outcome), as claimed: after the product is exhausted the
\* "No valid configuration found" branch is taken if and only if a catalog
\* is empty or no tuple satisfies all nine predicates; a feasible tuple of
\* any cost makes the run report a configuration.
C2_NoneIffNoFeasibleTuple ==
    (pc = "done") =>
        ((output = NotFound) <=> (AnyCatalogEmpty \/ FeasibleTuples = {}))

---------------------------------------------------------------------------
(* C3 *)

\* The feasible tuples, among those enumerated so far, of minimal cost.
CheapestEnumerated ==
    {t \in Enumerated \cap FeasibleTuples :
        \A u \in Enumerated \cap FeasibleTuples : CostOfTuple(t) <= CostOfTuple(u)}
IsFirst(t, S) == t \in S /\ \A u \in S : u = t \/ LexLess(t, u)

\* C3 (tie-break stability): the best-so-far is replaced only by a tuple of
\* strictly lower total cost, and whenever a configuration is held it is the
\* first, in enumeration order (amplifier, then switch, then attenuator,
\* then divider index), of the cheapest feasible tuples enumerated so far;
\* at the end of the run, of the cheapest feasible tuples of the product.
C3_FirstOfTies ==
    /\ [](best_combination # "" =>
            \E t \in CheapestEnumerated :
                IsFirst(t, CheapestEnumerated) /\ best_combination = NameOfTuple(t))
    /\ [][best_combination' # best_combination => min_cost' < min_cost]_vars

\* A finished run in which two feasible tuples tie at the minimal cost, the
\* two not differing in the divider alone, and the first is reported.
C3_Witness ==
    /\ pc = "done" /\ Reported
    /\ \E t, u \in CheapestEnumerated :
          /\ LexLess(t, u)
          /\ <<t[1], t[2], t[3]>> # <<u[1], u[2], u[3]>>
          /\ ReportedName = NameOfTuple(t)

---------------------------------------------------------------------------
(* C4 *)

\* C4 (empty catalog): when any one catalog is empty the loop body is never
\* entered, the best-so-far is never updated, and the run ends by printing
\* the "no configuration found" message.
C4_EmptyCatalog ==
    AnyCatalogEmpty =>
        /\ pc \notin {"body", "compare"}
        /\ NoneHeld
        /\ (pc = "done" => output = NotFound)

\* A finished run with an empty divider catalog and three non-empty catalogs
\* whose components meet every specification.
C4_Witness ==
    /\ pc = "done" /\ output = NotFound
    /\ Len(dividers) = 0
    /\ Len(amplifiers) > 0 /\ Len(switches) > 0 /\ Len(attenuators) > 0
    /\ \E a \in 1..Len(amplifiers), s \in 1..Len(switches), t \in 1..Len(attenuators) :
          NinePredicates(amplifiers[a], switches[s], attenuators[t],
                         PowerDivider("Divider-1", 0, 0))

---------------------------------------------------------------------------
(* C5 *)

\* C5 (feasibility gate): the tuple whose loop body runs is compared with
\* the best-so-far cost if and only if it satisfies all nine predicates, and
\* the configuration held is never one of a tuple that fails a predicate.
C5_FeasibilityGate ==
    /\ [][pc = "body" =>
            (pc' = "compare" <=> NinePredicates(amp, sw, att, div))]_vars
    /\ [](pc = "compare" => NinePredicates(amp, sw, att, div))
    /\ [](\A t \in Tuples : best_combination = NameOfTuple(t) => FeasibleTuple(t))

\* A finished run that reports a configuration although a tuple that fails
\* exactly one predicate is cheaper.
C5_Witness ==
    /\ pc = "done" /\ Reported
    /\ \E t \in Tuples :
          /\ Failures(AmpOf(t), SwOf(t), AttOf(t), DivOf(t)) = 1
          /\ CostOfTuple(t) < ReportedCost

---------------------------------------------------------------------------
(* C6 *)

\* C6 (leakage boundary): a tuple that satisfies the other eight predicates
\* is compared with the best-so-far cost if its switch leaks strictly less
\* than -55 dB at 1 GHz and is skipped if the leakage is exactly -55 dB; a
\* run whose only switch has leakage_1GHz = -55 dB reports no configuration.
C6_LeakageBoundary ==
    /\ [][(pc = "body" /\ AllButP7(amp, sw, att, div)) =>
            /\ sw.leakage_1GHz = -550000 => pc' = "for_div"
            /\ sw.leakage_1GHz < -550000 => pc' = "compare"]_vars
    /\ []((pc = "done" /\ Len(switches) = 1 /\ switches[1].leakage_1GHz = -550000)
            => output = NotFound)

\* A finished run over a switch with leakage_1GHz = -55 dB followed by one
\* with -55.0001 dB, alike otherwise: the second one is reported.
C6_Witness ==
    /\ pc = "done" /\ Reported
    /\ Len(switches) = 2
    /\ switches[1].leakage_1GHz = -550000
    /\ switches[2] = [switches[1] EXCEPT !.name = "Switch-2", !.leakage_1GHz = -550001]
    /\ \E t \in FeasibleTuples : t[2] = 2 /\ ReportedName = NameOfTuple(t)

---------------------------------------------------------------------------
(* C7 *)

MainCatalogs ==
    /\ amplifiers = Amplifiers(<<AmpA, AmpB>>)
    /\ switches = Switches(<<Switch1, Switch2>>)
    /\ attenuators = Attenuators(<<Attenuator1, Attenuator2>>)
    /\ dividers = Dividers(<<Divider1, Divider2>>)

\* C7 (reference scenario): on the catalogs of main the run reports Amp-A,
\* Switch-1, Attenuator-2, Divider-1 at total cost 150, the cheapest of the
\* feasible tuples among the 16 combinations.
C7_ReferenceScenario ==
    (MainCatalogs /\ pc = "done") =>
        /\ Cardinality(Tuples) = 16
        /\ output = Found("Amplifier: Amp-A, Switch: Switch-1, Attenuator: Attenuator-2, Power Divider: Divider-1", 150)
        /\ FeasibleTuple(<<1, 1, 2, 1>>) /\ CostOfTuple(<<1, 1, 2, 1>>) = 150
        /\ \A t \in FeasibleTuples : CostOfTuple(t) >= 150

\* The run on the catalogs of main has ended and has printed a configuration.
C7_Witness == MainCatalogs /\ pc = "done" /\ Reported

---------------------------------------------------------------------------
(* C8 *)

\* The current tuple has had its cost computed.
CostComputed == di >= 1 /\ pc \in {"compare", "for_div"}

\* C8 (cost independent of feasibility): once the loop body has run for a
\* tuple, feasible or not, total_cost is amp.cost + sw.cost + att.cost +
\* div.cost of that tuple; attenuators and dividers cost 0; and the reported
\* cost is amp.cost + sw.cost of the reported components.
C8_CostIndependent ==
    /\ CostComputed =>
          total_cost = DAdd(DAdd(DAdd(amp.cost, sw.cost), att.cost), div.cost)
    /\ \A i \in 1..Len(attenuators) : attenuators[i].cost = 0
    /\ \A i \in 1..Len(dividers) : dividers[i].cost = 0
    /\ Reported =>
          \E t \in Tuples : /\ ReportedName = NameOfTuple(t)
                            /\ ReportedCost = DAdd(AmpOf(t).cost, SwOf(t).cost)

\* The loop body has just run for an infeasible tuple: its cost was
\* computed, is lower than the cost of the configuration held, and the
\* configuration held was left alone.
C8_Witness ==
    /\ pc = "for_div" /\ di >= 1
    /\ ~ NinePredicates(amp, sw, att, div)
    /\ total_cost = DAdd(amp.cost, sw.cost)
    /\ ~ NoneHeld /\ total_cost < min_cost /\ total_cost > 0

---------------------------------------------------------------------------
(* C9 *)

\* C9 (best-so-far invariant): at every point of the enumeration either no
\* configuration is held (best_combination empty, min_cost the sentinel) or
\* the one held is that of a feasible tuple already enumerated, whose cost
\* is min_cost and is at most the cost of every feasible tuple enumerated
\* so far; min_cost never increases; and min_cost and best_combination
\* change in the same step or not at all.
C9_BestSoFar ==
    /\ [](\/ NoneHeld
          \/ \E t \in Enumerated \cap FeasibleTuples :
                /\ best_combination = NameOfTuple(t)
                /\ min_cost = CostOfTuple(t)
                /\ \A u \in Enumerated \cap FeasibleTuples : min_cost <= CostOfTuple(u))
    /\ [][/\ min_cost' <= min_cost
          /\ (min_cost' # min_cost) <=> (best_combination' # best_combination)]_vars

\* Mid-run, after the configuration held was replaced by a cheaper one: a
\* feasible tuple enumerated earlier costs more than min_cost.
C9_Witness ==
    /\ pc = "for_div" /\ ~ NoneHeld
    /\ \E t \in Enumerated \cap FeasibleTuples : CostOfTuple(t) > min_cost
    /\ Enumerated # Tuples

---------------------------------------------------------------------------
(* C10 *)

\* C10 (minimum-gain independence): two runs on catalogs that are identical
\* except for the amplifiers' gain_min values and the switches' and
\* attenuators' P1dB_input values hold the same configuration at the same
\* cost after every tuple, and print the same result.
C10_MinGainIndependent ==
    /\ pc # "compare" =>
          (min_cost2 = min_cost /\ best_combination2 = best_combination)
    /\ pc = "done" => output2 = output

\* Two finished runs that report a configuration, on catalogs that differ in
\* the three kinds of component, the reported tuple having a minimum output
\* power above the amplifier's P1dB at 1 GHz in one run and not in the other.
C10_Witness ==
    /\ pc = "done" /\ Reported
    /\ amplifiers2 # amplifiers /\ switches2 # switches /\ attenuators2 # attenuators
    /\ \E t \in FeasibleTuples :
          /\ ReportedName = NameOfTuple(t)
          /\ min_output_power_1GHz(AmpOf(t), AttOf(t), DivOf(t)) > AmpOf(t).P1dB_1GHz
          /\ min_output_power_1GHz(amplifiers2[t[1]], attenuators2[t[3]], DivOf(t))
                <= amplifiers2[t[1]].P1dB_1GHz

====
